---- MODULE Spec2Model ----
(***************************************************************************)
(* State-machine model of qtercon's CommandWindow (src/commandwindow.cpp): *)
(* the command gate (lastCommand), the transcript log (writeToLog), the    *)
(* rcon and getstatus senders, the two receive slots and the close path,   *)
(* and of the out-of-band framing of the datagrams (SpecFraming).          *)
(* Strings are modelled as tuples of tokens; times are milliseconds.       *)
(***************************************************************************)
EXTENDS Integers, Sequences, FiniteSets, TLC

VARIABLES
    clock,            \* the wall clock as last read by sendCommand, ms since construction
    events,           \* number of events so far: handler runs and datagram losses
    lastCommand,      \* CommandWindow::lastCommand
    disconnect,       \* CommandWindow::disconnect
    mainWindow,       \* what closeEvent did to the main window: "untouched", "shown", "closed"
    alive,            \* the CommandWindow object (ui, status, rcon, statusTimer) exists
    closeCalled,      \* close() has been called on the window (Disconnect or Exit)
    singleShotPending,\* the QTimer::singleShot(250, on_actionStatus_triggered) has not fired
    preferences,      \* value stored under logging_enabled in preferences.ini
    password,         \* rcon password held by the Server given to Rcon
    log,              \* the log file: exists, content (chunks written), opens (QFile::open
                      \* calls), handles (handles the client holds on it)
    commandOutput,    \* chunks inserted into ui->commandOutput
    rconSent,         \* datagrams sent by rcon->send, in order
    statusSent,       \* number of getstatus datagrams sent by status->send
    rconPending,      \* rcon requests whose response is neither delivered nor lost
    statusPending,    \* getstatus requests whose response is neither delivered nor lost
    statusView,       \* window title, status bar text, player table
    received,         \* number of datagrams handled by onReceiveRcon / onReceiveStatus
    trace,            \* history of the sendCommand, requestServerStatus, onReceiveRcon
                      \* and onReceiveStatus calls
    framing           \* a payload on its way through frame and unframe: stage, payload,
                      \* datagram, result

\* The state of the CommandWindow and of its datagrams in flight.
windowVars == << clock, events, lastCommand, disconnect, mainWindow, alive, closeCalled,
                 singleShotPending, preferences, password, log, commandOutput,
                 rconSent, statusSent, rconPending, statusPending, statusView,
                 received, trace >>

vars == << windowVars, framing >>

(***************************************************************************)
(* Program constants                                                       *)
(***************************************************************************)
MinInterval == 1000
DayMs == 86400000
SingleShotMs == 250

(***************************************************************************)
(* Bounds of the model                                                     *)
(***************************************************************************)
MaxEvents == 3
MaxResponses == 1
MaxPolls == 1
MaxOpenFailures == 2

\* Change of the wall clock between two readings of it by sendCommand; the
\* negative value is a clock set back by one second.
Elapsed == {0 - 1000, 1, 500, 999, 1000}
\* Time between the two readings of the clock inside one sendCommand call.
ReadSkew == {0, 1}
Passwords == {"pw1", "pw2"}
\* Values of logging_enabled: absent from the file (the default 1 applies), "0", "1".
LoggingValues == {"unset", "0", "1"}
UserCommands == {"map_restart"}
Pings == {0, 48}

\* Console payloads: a sequence of lines, each a sequence of tokens; "^d" is a
\* colour escape.
ConsolePayloads ==
    { << << "^2", "Player1", "^7", " was kicked" >> >>,
      << << "map: q3dm6" >>, << "^1", "Test" >> >> }

\* Status payloads as delivered by Query, lines of tokens like the console
\* payloads: the header token, the variables (key, value, key, value, ...; a
\* value is a sequence of tokens), then one line per player (score, ping,
\* name).  The second payload has no header token, the third is empty.
StatusPayloads ==
    { << << "statusResponse" >>,
         << "mapname", << "q3dm6" >>, "gamename", << "baseq3" >>,
            "sv_hostname", << "^1", "Arena" >> >>,
         << "0", "48", "Player1" >> >>,
      << << "mapname", << "q3dm6" >> >> >>,
      << >> }

\* The two clients of a CommandWindow, each with a socket of its own.
Clients == {"status", "rcon"}

(***************************************************************************)
(* Helpers                                                                 *)
(***************************************************************************)
IsPrefix(s, t) == Len(s) <= Len(t) /\ SubSeq(t, 1, Len(s)) = s

\* QDateTime::msecsTo
msecsTo(from, to) == to - from

\* QDateTime::toString(): the default text format has one-second resolution.
DateToString(t) == t \div 1000

ColourTokens == { "^0", "^1", "^2", "^3", "^4", "^5", "^6", "^7", "^8", "^9" }

\* OutputParser::parse on one line: runs of text, each with the colour of the
\* most recent escape ("none" before the first).
RECURSIVE parseLine(_, _)
parseLine(line, colour) ==
    IF line = << >> THEN << >>
    ELSE IF Head(line) \in ColourTokens
         THEN parseLine(Tail(line), Head(line))
         ELSE << [text |-> Head(line), colour |-> colour] >>
              \o parseLine(Tail(line), colour)

\* OutputParser::parse: one Output per line of the payload.
OutputParser_parse(payload) ==
    [i \in 1..Len(payload) |-> parseLine(payload[i], "none")]

\* Output::getText: the text of the runs, colours dropped.
getText(output) == [i \in 1..Len(output) |-> output[i].text]

\* Output::toHtml: each run wrapped in a colour span.
toHtml(output) ==
    [i \in 1..Len(output) |-> << "span", output[i].colour, output[i].text >>]

\* Rcon::send: rcon <password> <command>
Rcon_send(command) == << "rcon", password, command >>

\* StatusParser::parse: variables and players of a payload with the header
\* token.  The function returns its Status by value and onReceiveStatus reads
\* no failure from it: a payload that is empty or has no header token gives a
\* Status without variables and without players.
StatusParser_parse(payload) ==
    IF payload # << >> /\ Head(payload) = << "statusResponse" >>
    THEN [variables |-> IF Len(payload) >= 2 THEN payload[2] ELSE << >>,
          players |-> [i \in 1..(Len(payload) - 2) |-> payload[i + 2][3]]]
    ELSE [variables |-> << >>, players |-> << >>]

\* QMap::value on the variables of a Status: the value stored under key, the
\* empty string when there is none.
value(variables, key) ==
    LET keys == { i \in 1..(Len(variables) \div 2) : variables[2 * i - 1] = key }
    IN IF keys = {} THEN << >> ELSE variables[2 * (CHOOSE i \in keys : TRUE)]

\* OutputParser::removeColors
removeColors(text) == SelectSeq(text, LAMBDA tok : tok \notin ColourTokens)

(***************************************************************************)
(* CommandWindow::writeToLog                                               *)
(***************************************************************************)
\* Fault variant: the file is opened before the logging flag is looked at.
writeToLog_openFirst(fs, line, canOpen) ==
    IF canOpen
    THEN [exists |-> TRUE,
          content |-> IF preferences = "0" THEN fs.content ELSE Append(fs.content, line),
          opens |-> fs.opens + 1, handles |-> fs.handles]
    ELSE [fs EXCEPT !.opens = fs.opens + 1]

\* Fault variant: the file is opened without QFile::Append.
writeToLog_truncate(fs, line, canOpen) ==
    IF preferences = "0"
    THEN fs
    ELSE IF canOpen
         THEN [exists |-> TRUE, content |-> << line >>, opens |-> fs.opens + 1,
               handles |-> fs.handles]
         ELSE [fs EXCEPT !.opens = fs.opens + 1]

\* Fault variant: the line is written twice.
writeToLog_twice(fs, line, canOpen) ==
    IF preferences = "0"
    THEN fs
    ELSE IF canOpen
         THEN [exists |-> TRUE,
               content |-> Append(Append(fs.content, line), line),
               opens |-> fs.opens + 1, handles |-> fs.handles]
         ELSE [fs EXCEPT !.opens = fs.opens + 1]

\* QFile::open(WriteOnly | Append) with result canOpen: the file is created
\* when missing, and the client holds a handle on it.
QFile_open(fs, canOpen) ==
    [fs EXCEPT !.opens = @ + 1,
               !.exists = @ \/ canOpen,
               !.handles = IF canOpen THEN @ + 1 ELSE @]

\* QTextStream << line on the open file.
QFile_write(fs, line) == [fs EXCEPT !.content = Append(@, line)]

\* ~QFile at the end of writeToLog: the handle is released if the file is open.
QFile_destroy(fs, isOpen) == [fs EXCEPT !.handles = IF isOpen THEN @ - 1 ELSE @]

\* Fault variant: the QFile is allocated with new and never deleted.
writeToLog_leak(fs, line, canOpen) ==
    IF preferences = "0"
    THEN fs
    ELSE IF canOpen
         THEN QFile_write(QFile_open(fs, canOpen), line)
         ELSE QFile_open(fs, canOpen)

\* writeToLog on the log file fs, canOpen being the result of QFile::open.
writeToLog(fs, line, canOpen) ==
    IF preferences = "0"
    THEN fs
    ELSE IF canOpen
         THEN QFile_destroy(QFile_write(QFile_open(fs, canOpen), line), canOpen)
         ELSE QFile_destroy(QFile_open(fs, canOpen), canOpen)

\* QFile::open calls on the log file that failed so far.
OpenFailures(fs) == fs.opens - Len(fs.content)

\* The results QFile::open can have over n consecutive writeToLog calls: any,
\* within the bound on failures (none is made when logging is off).
OpenResults(fs, n) ==
    IF preferences = "0"
    THEN { [i \in 1..n |-> FALSE] }
    ELSE { r \in [1..n -> BOOLEAN] :
             OpenFailures(fs) + Cardinality({ i \in 1..n : ~r[i] }) <= MaxOpenFailures }

(***************************************************************************)
(* Initial state: after the CommandWindow constructor                      *)
(***************************************************************************)
CommandWindow_init ==
    /\ clock = 0
    /\ events = 0
    /\ lastCommand = 0 - DayMs
    /\ disconnect = FALSE
    /\ mainWindow = "untouched"
    /\ alive = TRUE
    /\ closeCalled = FALSE
    /\ singleShotPending = TRUE
    /\ preferences \in LoggingValues
    /\ password \in Passwords
    /\ log = [exists |-> FALSE, content |-> << >>, opens |-> 0, handles |-> 0]
    /\ commandOutput = << >>
    /\ rconSent = << >>
    /\ statusSent = 0
    /\ rconPending = 0
    /\ statusPending = 0
    /\ statusView = [title |-> << "qtercon" >>, statusbar |-> << >>, players |-> << >>]
    /\ received = 0
    /\ trace = << >>

\* No payload is followed through the framing while the window runs.
Init ==
    /\ CommandWindow_init
    /\ framing = [stage |-> "idle", payload |-> << >>, datagram |-> << >>,
                  result |-> << >>]

\* Every event counts against the length of the run.
Step ==
    /\ events < MaxEvents
    /\ events' = events + 1
    /\ UNCHANGED framing

\* Console responses handled so far.
Responses == Len(SelectSeq(trace, LAMBDA e : e.op = "onReceiveRcon"))

(***************************************************************************)
(* CommandWindow::sendCommand                                              *)
(***************************************************************************)
\* Fault variant: <= in place of <.
sendCommand_gate_inclusive(last, now) ==
    IF msecsTo(last, now) <= MinInterval
    THEN [accepted |-> FALSE, lastCommand |-> last]
    ELSE [accepted |-> TRUE, lastCommand |-> now]

\* Fault variant: lastCommand is not updated on acceptance.
sendCommand_gate_stale(last, now) ==
    IF msecsTo(last, now) < MinInterval
    THEN [accepted |-> FALSE, lastCommand |-> last]
    ELSE [accepted |-> TRUE, lastCommand |-> last]

\* Fault variant: a rejected attempt restarts the window.
sendCommand_gate_restart(last, now) ==
    IF msecsTo(last, now) < MinInterval
    THEN [accepted |-> FALSE, lastCommand |-> now]
    ELSE [accepted |-> TRUE, lastCommand |-> now]

\* Fault variant: the window advances by the interval, so idle time is credited.
sendCommand_gate_credit(last, now) ==
    IF msecsTo(last, now) < MinInterval
    THEN [accepted |-> FALSE, lastCommand |-> last]
    ELSE [accepted |-> TRUE, lastCommand |-> last + MinInterval]

\* Fault variant: the distance between the two times is taken, not the
\* difference.
sendCommand_gate_abs(last, now) ==
    IF (IF now >= last THEN msecsTo(last, now) ELSE msecsTo(now, last)) < MinInterval
    THEN [accepted |-> FALSE, lastCommand |-> last]
    ELSE [accepted |-> TRUE, lastCommand |-> now]

\* Fault variant: no command goes out while a response is awaited.
sendCommand_gate_awaits(last, now) ==
    IF rconPending > 0 \/ msecsTo(last, now) < MinInterval
    THEN [accepted |-> FALSE, lastCommand |-> last]
    ELSE [accepted |-> TRUE, lastCommand |-> now]

\* The gate at the head of sendCommand (lines 157-162): with lastCommand = last
\* and the clock reading now, whether the command goes on, and lastCommand
\* afterwards.
sendCommand_gate(last, now) ==
    IF msecsTo(last, now) < MinInterval
    THEN [accepted |-> FALSE, lastCommand |-> last]
    ELSE [accepted |-> TRUE, lastCommand |-> now]

\* Fault variant: the line shows the rcon request, password included.
sendCommand_output_withRequest(ts, command) == << ts, " > " >> \o Rcon_send(command)

\* The line of an accepted command (lines 164-166): date, " > ", command.
sendCommand_output(ts, command) == << ts, " > ", command >>

\* sendCommand: now is the clock as read at line 157, ts the text of the second
\* reading at line 164, canOpen the result of QFile::open in writeToLog.
sendCommand(command) ==
    /\ alive
    /\ Step
    /\ \E now \in { clock + d : d \in Elapsed } :
       LET gate == sendCommand_gate(lastCommand, now) IN
       /\ clock' = now
       /\ lastCommand' = gate.lastCommand
       /\ IF ~gate.accepted
          THEN /\ trace' = Append(trace, [op |-> "sendCommand", at |-> now,
                                          accepted |-> FALSE])
               /\ UNCHANGED << log, commandOutput, rconSent, rconPending >>
          ELSE \E ts \in { DateToString(now + skew) : skew \in ReadSkew },
                  canOpen \in OpenResults(log, 1) :
               LET output == sendCommand_output(ts, command) IN
               /\ log' = writeToLog(log, output \o << "\n\n" >>, canOpen[1])
               /\ commandOutput' = Append(commandOutput, output \o << "<br /><br />" >>)
               /\ rconSent' = Append(rconSent, Rcon_send(command))
               /\ rconPending' = rconPending + 1
               /\ trace' = Append(trace, [op |-> "sendCommand", at |-> now,
                                          ts |-> ts, command |-> command,
                                          accepted |-> TRUE, opened |-> canOpen[1]])
    /\ UNCHANGED << disconnect, mainWindow, alive, closeCalled, preferences,
                    password, statusSent, statusPending, statusView, received >>

\* Send button, or Enter in the command box (connected to the same slot).
on_sendButton_clicked ==
    /\ \E command \in UserCommands : sendCommand(command)
    /\ UNCHANGED singleShotPending

on_actionStatus_triggered ==
    /\ sendCommand("status")
    /\ UNCHANGED singleShotPending

\* Fault variant: the automatic status command is sent without looking at
\* lastCommand.
initialStatus_ungated ==
    /\ singleShotPending
    /\ singleShotPending' = FALSE
    /\ alive
    /\ Step
    /\ \E now \in { clock + d : d \in Elapsed } :
       \E ts \in { DateToString(now + skew) : skew \in ReadSkew },
          canOpen \in OpenResults(log, 1) :
          LET output == sendCommand_output(ts, "status") IN
          /\ now >= SingleShotMs
          /\ clock' = now
          /\ lastCommand' = lastCommand
          /\ log' = writeToLog(log, output \o << "\n\n" >>, canOpen[1])
          /\ commandOutput' = Append(commandOutput, output \o << "<br /><br />" >>)
          /\ rconSent' = Append(rconSent, Rcon_send("status"))
          /\ rconPending' = rconPending + 1
          /\ trace' = Append(trace, [op |-> "sendCommand", at |-> now,
                                     ts |-> ts, command |-> "status",
                                     accepted |-> TRUE, opened |-> canOpen[1]])
    /\ UNCHANGED << disconnect, mainWindow, alive, closeCalled, preferences,
                    password, statusSent, statusPending, statusView, received >>

\* The QTimer::singleShot(250, this, SLOT(on_actionStatus_triggered())) of the
\* constructor: fires once, not before 250 ms have passed.
initialStatus ==
    /\ singleShotPending
    /\ singleShotPending' = FALSE
    /\ sendCommand("status")
    /\ clock' >= SingleShotMs

on_actionServer_info_triggered ==
    /\ sendCommand("serverinfo")
    /\ UNCHANGED singleShotPending

(***************************************************************************)
(* CommandWindow::requestServerStatus, slot of statusTimer's timeout       *)
(***************************************************************************)
\* Fault variant: no poll while an rcon response is awaited.
requestServerStatus_afterRcon ==
    /\ alive
    /\ Step
    /\ statusSent < MaxPolls
    /\ rconPending = 0
    /\ statusSent' = statusSent + 1
    /\ statusPending' = statusPending + 1
    /\ trace' = Append(trace, [op |-> "requestServerStatus"])
    /\ UNCHANGED << clock, lastCommand, disconnect, mainWindow, alive,
                    closeCalled, singleShotPending, preferences, password, log,
                    commandOutput, rconSent, rconPending, statusView, received >>

\* Fault variant: the poll is written to the log like a command.
requestServerStatus_logged ==
    /\ alive
    /\ Step
    /\ statusSent < MaxPolls
    /\ statusSent' = statusSent + 1
    /\ statusPending' = statusPending + 1
    /\ log' = writeToLog(log, << "getstatus", "\n\n" >>, TRUE)
    /\ trace' = Append(trace, [op |-> "requestServerStatus"])
    /\ UNCHANGED << clock, lastCommand, disconnect, mainWindow, alive,
                    closeCalled, singleShotPending, preferences, password,
                    commandOutput, rconSent, rconPending, statusView, received >>

requestServerStatus ==
    /\ alive
    /\ Step
    /\ statusSent < MaxPolls
    /\ statusSent' = statusSent + 1
    /\ statusPending' = statusPending + 1
    /\ trace' = Append(trace, [op |-> "requestServerStatus"])
    /\ UNCHANGED << clock, lastCommand, disconnect, mainWindow, alive,
                    closeCalled, singleShotPending, preferences, password, log,
                    commandOutput, rconSent, rconPending, statusView, received >>

(***************************************************************************)
(* Delivery of responses to the receive slots                              *)
(***************************************************************************)
\* Fault variant: the two receive signals are connected to each other's slot.
connect_crossed(client) ==
    IF client = "status" THEN "onReceiveRcon" ELSE "onReceiveStatus"

\* The connect calls of the constructor (lines 32-35): the slot that the
\* receive signal of each client is connected to.
connect(client) ==
    IF client = "status" THEN "onReceiveStatus" ELSE "onReceiveRcon"

\* What the server answers to a request of a client: a status payload to a
\* getstatus, console output to an rcon command.
ResponsesTo(client) ==
    IF client = "status" THEN StatusPayloads ELSE ConsolePayloads

\* A response arrives on the socket of the client that sent the request, and
\* that client emits its receive signal.
receive(client) ==
    /\ IF client = "status" THEN statusPending > 0 ELSE rconPending > 0
    /\ statusPending' = IF client = "status" THEN statusPending - 1 ELSE statusPending
    /\ rconPending' = IF client = "rcon" THEN rconPending - 1 ELSE rconPending

(***************************************************************************)
(* CommandWindow::onReceiveRcon                                            *)
(***************************************************************************)
\* Fault variant: the loop ends at the first line whose log write fails.
RECURSIVE onReceiveRcon_loop_break(_, _, _, _)
onReceiveRcon_loop_break(fs, view, parsedOutput, canOpen) ==
    IF parsedOutput = << >> THEN [log |-> fs, commandOutput |-> view]
    ELSE IF preferences # "0" /\ ~Head(canOpen)
         THEN [log |-> writeToLog(fs, getText(Head(parsedOutput)), Head(canOpen)),
               commandOutput |-> view]
         ELSE onReceiveRcon_loop_break(
                  writeToLog(fs, getText(Head(parsedOutput)), Head(canOpen)),
                  Append(view, toHtml(Head(parsedOutput))),
                  Tail(parsedOutput), Tail(canOpen))

\* Fault variant: the iterator runs from the back of the list.
RECURSIVE onReceiveRcon_loop_backwards(_, _, _, _)
onReceiveRcon_loop_backwards(fs, view, parsedOutput, canOpen) ==
    IF parsedOutput = << >> THEN [log |-> fs, commandOutput |-> view]
    ELSE LET n == Len(parsedOutput) IN
         onReceiveRcon_loop_backwards(
             writeToLog(fs, getText(parsedOutput[n]), canOpen[n]),
             Append(view, toHtml(parsedOutput[n])),
             SubSeq(parsedOutput, 1, n - 1), SubSeq(canOpen, 1, n - 1))

\* The while loop of onReceiveRcon (lines 100-104) over the parsed lines: each
\* line is written to the log, then inserted into the output view.
RECURSIVE onReceiveRcon_loop(_, _, _, _)
onReceiveRcon_loop(fs, view, parsedOutput, canOpen) ==
    IF parsedOutput = << >> THEN [log |-> fs, commandOutput |-> view]
    ELSE onReceiveRcon_loop(
             writeToLog(fs, getText(Head(parsedOutput)), Head(canOpen)),
             Append(view, toHtml(Head(parsedOutput))),
             Tail(parsedOutput), Tail(canOpen))

onReceiveRcon ==
    /\ alive
    /\ Step
    /\ Responses < MaxResponses
    /\ \E client \in Clients :
       /\ connect(client) = "onReceiveRcon"
       /\ receive(client)
       /\ \E payload \in ResponsesTo(client) :
          \E canOpen \in OpenResults(log, Len(payload)) :
             LET parsedOutput == OutputParser_parse(payload)
                 after == onReceiveRcon_loop(log, commandOutput, parsedOutput, canOpen)
             IN
             /\ log' = after.log
             /\ commandOutput' = after.commandOutput
             /\ trace' = Append(trace, [op |-> "onReceiveRcon", re |-> client,
                                        payload |-> payload, opened |-> canOpen])
    /\ received' = received + 1
    /\ UNCHANGED << clock, lastCommand, disconnect, mainWindow, alive,
                    closeCalled, singleShotPending, preferences, password,
                    rconSent, statusSent, statusView >>

(***************************************************************************)
(* CommandWindow::onReceiveStatus                                          *)
(***************************************************************************)
\* ping is the round trip measured by Query (status->getPing()).
onReceiveStatus ==
    /\ alive
    /\ Step
    /\ \E client \in Clients :
       /\ connect(client) = "onReceiveStatus"
       /\ receive(client)
       /\ \E payload \in ResponsesTo(client), ping \in Pings :
             LET status == StatusParser_parse(payload)
                 v == status.variables
                 p == status.players
                 serverStatus == IF ping > 0 THEN << " ~ ", ping, " ms" >> ELSE << >>
             IN
             /\ statusView' =
                   [title |-> << "qtercon", " - ", value(v, "gamename"),
                                 value(v, "shortversion"), Len(p),
                                 value(v, "sv_maxclients") >> \o serverStatus,
                    statusbar |-> << value(v, "mapname"), value(v, "g_gametype"),
                                     removeColors(value(v, "sv_hostname")) >>,
                    players |-> p]
             /\ trace' = Append(trace, [op |-> "onReceiveStatus", re |-> client,
                                        payload |-> payload])
    /\ received' = received + 1
    /\ UNCHANGED << clock, lastCommand, disconnect, mainWindow, alive,
                    closeCalled, singleShotPending, preferences, password, log,
                    commandOutput, rconSent, statusSent >>

(***************************************************************************)
(* The network: a response datagram may be lost                            *)
(***************************************************************************)
loseRconResponse ==
    /\ Step
    /\ rconPending > 0
    /\ rconPending' = rconPending - 1
    /\ UNCHANGED << clock, lastCommand, disconnect, mainWindow, alive,
                    closeCalled, singleShotPending, preferences, password, log,
                    commandOutput, rconSent, statusSent, statusPending,
                    statusView, received, trace >>

loseStatusResponse ==
    /\ Step
    /\ statusPending > 0
    /\ statusPending' = statusPending - 1
    /\ UNCHANGED << clock, lastCommand, disconnect, mainWindow, alive,
                    closeCalled, singleShotPending, preferences, password, log,
                    commandOutput, rconSent, statusSent, rconPending,
                    statusView, received, trace >>

(***************************************************************************)
(* Closing the window                                                      *)
(***************************************************************************)
\* Fault variant: the close event is ignored.
closeEvent_ignored(isNull, d) ==
    [mainWindow |-> IF ~isNull
                    THEN (IF d THEN "shown" ELSE "closed")
                    ELSE "untouched",
     accepted |-> FALSE]

\* CommandWindow::closeEvent with the disconnect flag d, isNull telling whether
\* the mainWindow pointer is null: what is done to the main window, and
\* whether the event is accepted (QMainWindow::closeEvent accepts it).
closeEvent(isNull, d) ==
    [mainWindow |-> IF ~isNull
                    THEN (IF d THEN "shown" ELSE "closed")
                    ELSE "untouched",
     accepted |-> TRUE]

\* The command window is created with the delete-on-close attribute: closing
\* the session ends it, releasing the sockets and the status trigger.
WA_DeleteOnClose == TRUE

\* QWidget::close() as called by the Disconnect and Exit actions: deliver the
\* close event; when accepted the window goes away, and with the
\* delete-on-close attribute ~CommandWindow runs (status and rcon deleted,
\* statusTimer and the pending single shot destroyed with the object).
\* The mainWindow pointer is fixed at construction and read here first.
close(d) ==
    \E isNull \in BOOLEAN :
        LET event == closeEvent(isNull, d) IN
        /\ mainWindow' = event.mainWindow
        /\ IF event.accepted /\ WA_DeleteOnClose
           THEN /\ alive' = FALSE
                /\ singleShotPending' = FALSE
           ELSE UNCHANGED << alive, singleShotPending >>

on_actionDisconnect_triggered ==
    /\ alive
    /\ Step
    /\ disconnect' = TRUE
    /\ closeCalled' = TRUE
    /\ close(TRUE)
    /\ UNCHANGED << clock, lastCommand, preferences, password, log,
                    commandOutput, rconSent, statusSent, rconPending,
                    statusPending, statusView, received, trace >>

\* The Exit action, or the window's close button.
on_actionExit_triggered ==
    /\ alive
    /\ Step
    /\ closeCalled' = TRUE
    /\ close(disconnect)
    /\ UNCHANGED << clock, lastCommand, disconnect, preferences, password,
                    log, commandOutput, rconSent, statusSent, rconPending,
                    statusPending, statusView, received, trace >>

Next ==
    \/ on_sendButton_clicked
    \/ on_actionStatus_triggered
    \/ on_actionServer_info_triggered
    \/ initialStatus
    \/ requestServerStatus
    \/ onReceiveRcon
    \/ onReceiveStatus
    \/ loseRconResponse
    \/ loseStatusResponse
    \/ on_actionDisconnect_triggered
    \/ on_actionExit_triggered

Spec == Init /\ [][Next]_vars

(***************************************************************************)
(* Out-of-band framing of the datagrams                                    *)
(***************************************************************************)
MaxPayloadLen == 3

\* Byte values: NUL, a letter, 0xFF.
Bytes == {0, 65, 255}

\* Byte sequences of length n.
RECURSIVE ByteSeqs(_)
ByteSeqs(n) ==
    IF n = 0 THEN { << >> }
    ELSE { Append(b, x) : b \in ByteSeqs(n - 1), x \in Bytes }

FramingPayloads == UNION { ByteSeqs(n) : n \in 0..MaxPayloadLen }

\* The out-of-band marker 0xFFFFFFFF.
Marker == << 255, 255, 255, 255 >>

\* frame: the marker, then the payload.
frame(payload) == Marker \o payload

\* Fault variant: every leading 0xFF byte is taken for the marker.
RECURSIVE unframe_greedy(_)
unframe_greedy(datagram) ==
    IF datagram # << >> /\ Head(datagram) = 255
    THEN unframe_greedy(Tail(datagram))
    ELSE datagram

\* unframe: the datagram without its marker; MalformedFrame when the datagram
\* is shorter than the marker or does not begin with it.
unframe(datagram) ==
    IF Len(datagram) < Len(Marker) \/ SubSeq(datagram, 1, Len(Marker)) # Marker
    THEN "MalformedFrame"
    ELSE SubSeq(datagram, Len(Marker) + 1, Len(datagram))

InitFraming ==
    /\ CommandWindow_init
    /\ \E payload \in FramingPayloads :
          framing = [stage |-> "payload", payload |-> payload,
                     datagram |-> << >>, result |-> << >>]

Frame ==
    /\ framing.stage = "payload"
    /\ framing' = [framing EXCEPT !.stage = "framed",
                                  !.datagram = frame(framing.payload)]
    /\ UNCHANGED windowVars

Unframe ==
    /\ framing.stage = "framed"
    /\ framing' = [framing EXCEPT !.stage = "unframed",
                                  !.result = unframe(framing.datagram)]
    /\ UNCHANGED windowVars

NextFraming == Frame \/ Unframe

SpecFraming == InitFraming /\ [][NextFraming]_vars

(***************************************************************************)
(* History views used by the properties                                    *)
(***************************************************************************)
\* The sendCommand calls so far, in order.
Gate == SelectSeq(trace, LAMBDA e : e.op = "sendCommand")

\* A sendCommand call happens in this step.
AttemptStep == Len(trace') = Len(trace) + 1 /\ trace'[Len(trace')].op = "sendCommand"

\* The command of the sendCommand call of this step.
AttemptCommand == trace'[Len(trace')].command

\* Attempts i and j of the history are accepted, with none accepted between.
ConsecutiveAccepted(i, j) ==
    /\ i < j
    /\ Gate[i].accepted
    /\ Gate[j].accepted
    /\ \A k \in (i + 1)..(j - 1) : ~Gate[k].accepted

(***************************************************************************)
(* C1: a command attempt made at time now is accepted (lastCommand becomes *)
(* now and the command is sent over rcon) if and only if                   *)
(* now - lastCommand >= 1000 ms; otherwise neither changes.                *)
(***************************************************************************)
C1_AcceptedIffIntervalElapsed ==
    [][AttemptStep =>
         IF msecsTo(lastCommand, clock') >= MinInterval
         THEN /\ lastCommand' = clock'
              /\ rconSent' = Append(rconSent, << "rcon", password, AttemptCommand >>)
         ELSE /\ lastCommand' = lastCommand
              /\ rconSent' = rconSent]_vars

\* An attempt 999 ms after an accepted one was rejected and the one 1000 ms
\* after it was accepted.
C1_Witness ==
    /\ Len(Gate) = 3
    /\ Gate[1].accepted
    /\ Gate[2].at = Gate[1].at + 999 /\ ~Gate[2].accepted
    /\ Gate[3].at = Gate[1].at + 1000 /\ Gate[3].accepted
    /\ lastCommand = Gate[3].at
    /\ Len(rconSent) = 2

(***************************************************************************)
(* C2: the window is measured from the last accepted attempt, never from a *)
(* rejected one: an attempt at least 1000 ms after the last accepted one   *)
(* is accepted whatever was rejected in between, and any two consecutive   *)
(* accepted attempts are at least 1000 ms apart.                           *)
(***************************************************************************)
C2_WindowFromLastAccepted ==
    \A i, j \in 1..Len(Gate) :
        /\ ConsecutiveAccepted(i, j) => Gate[j].at - Gate[i].at >= MinInterval
        /\ ( /\ i < j
             /\ Gate[i].accepted
             /\ \A k \in (i + 1)..(j - 1) : ~Gate[k].accepted
             /\ Gate[j].at - Gate[i].at >= MinInterval ) => Gate[j].accepted

\* Attempts at t, t + 500 and t + 1000 ms: accept, reject, accept; the third
\* comes 500 ms after the rejected one and 1000 ms after the accepted one.
C2_Witness ==
    /\ Len(Gate) = 3
    /\ Gate[1].accepted
    /\ Gate[2].at = Gate[1].at + 500 /\ ~Gate[2].accepted
    /\ Gate[3].at = Gate[1].at + 1000 /\ Gate[3].accepted

(***************************************************************************)
(* C3: a rejected command attempt has no effect: lastCommand, the rcon     *)
(* datagrams sent, the log file and the console output view are unchanged. *)
(***************************************************************************)
C3_RejectedAttemptHasNoEffect ==
    [][(AttemptStep /\ msecsTo(lastCommand, clock') < MinInterval) =>
         UNCHANGED << lastCommand, rconSent, rconPending, log, commandOutput,
                      statusSent, statusPending, statusView >>]_vars

\* The last attempt was rejected although earlier ones left a log and output.
C3_Witness ==
    /\ Len(Gate) >= 2
    /\ ~Gate[Len(Gate)].accepted
    /\ trace[Len(trace)].op = "sendCommand"
    /\ Len(log.content) >= 1
    /\ Len(commandOutput) >= 1
    /\ Len(rconSent) = 1

(***************************************************************************)
(* C4: no credit accumulates while idle: however long the idle period      *)
(* before it, of a burst of attempts that all fall within less than        *)
(* 1000 ms of the first, exactly the first is accepted.                    *)
(***************************************************************************)
\* Attempts i..j form a burst after an idle period: attempt i comes at least
\* 1000 ms after the last accepted attempt (or is the first of the session,
\* a day after the initial lastCommand), and the others within 1000 ms of it.
Burst(i, j) ==
    /\ i < j
    /\ \A h \in 1..(i - 1) : Gate[h].accepted => Gate[i].at - Gate[h].at >= MinInterval
    /\ \A k \in (i + 1)..j : /\ Gate[k].at >= Gate[i].at
                              /\ Gate[k].at - Gate[i].at < MinInterval

C4_NoCreditAfterIdle ==
    \A i, j \in 1..Len(Gate) :
        Burst(i, j) => /\ Gate[i].accepted
                       /\ \A k \in (i + 1)..j : ~Gate[k].accepted

\* A burst of three attempts within 501 ms, the first one a day after the
\* initial lastCommand: one command sent.
C4_Witness ==
    /\ Len(Gate) = 3
    /\ Burst(1, 3)
    /\ Gate[1].at - (0 - DayMs) >= 86 * MinInterval
    /\ Gate[2].at = Gate[1].at + 500
    /\ Gate[3].at = Gate[1].at + 501
    /\ Len(rconSent) = 1

(***************************************************************************)
(* C5: the rcon password never reaches the log: the log content is a       *)
(* function of the timestamps, command texts and received lines of the     *)
(* operations performed (and of which writes could open the file), so      *)
(* sessions differing only in the password and performing the same         *)
(* operations have identical logs.                                         *)
(***************************************************************************)
\* The text of line i of a console payload, colour escapes removed.
PlainLine(payload, i) ==
    SelectSeq(payload[i], LAMBDA tok : tok \notin ColourTokens)

RECURSIVE ReceivedRecords(_, _)
ReceivedRecords(e, n) ==
    IF n = 0 THEN << >>
    ELSE ReceivedRecords(e, n - 1)
         \o (IF e.opened[n] THEN << PlainLine(e.payload, n) >> ELSE << >>)

\* The log records operation e leaves when logging is on.
RecordsOf(e) ==
    CASE e.op = "sendCommand" ->
           IF e.accepted /\ e.opened
           THEN << << e.ts, " > ", e.command, "\n\n" >> >>
           ELSE << >>
      [] e.op = "onReceiveRcon" -> ReceivedRecords(e, Len(e.payload))
      [] OTHER -> << >>

RECURSIVE LogOfTrace(_)
LogOfTrace(n) ==
    IF n = 0 THEN << >> ELSE LogOfTrace(n - 1) \o RecordsOf(trace[n])

C5_LogIndependentOfPassword ==
    log.content = IF preferences = "0" THEN << >> ELSE LogOfTrace(Len(trace))

\* A command was accepted and logged, and its response logged after it.
C5_Witness ==
    /\ Len(trace) = 2
    /\ trace[1].op = "sendCommand" /\ trace[1].accepted /\ trace[1].opened
    /\ trace[1].command = "map_restart"
    /\ trace[2].op = "onReceiveRcon"
    /\ Len(log.content) = 3
    /\ rconSent = << << "rcon", password, "map_restart" >> >>

(***************************************************************************)
(* C6: with logging turned off (logging_enabled is "0") no append touches  *)
(* the file: it is never opened, created or written, whatever commands     *)
(* were sent and responses received.                                       *)
(***************************************************************************)
C6_LoggingOffNoFileIO ==
    preferences = "0" =>
        /\ log.opens = 0
        /\ ~log.exists
        /\ log.content = << >>

\* With logging off a command was sent and a two-line response handled.
C6_Witness ==
    /\ preferences = "0"
    /\ Len(rconSent) = 1
    /\ Len(commandOutput) = 3
    /\ received = 1

(***************************************************************************)
(* C7: the log file is append-only: in every step the content before is a  *)
(* prefix of the content after, and an existing file stays.                *)
(***************************************************************************)
C7_LogAppendOnly ==
    [][/\ IsPrefix(log.content, log'.content)
       /\ (log.exists => log'.exists)]_vars

\* The log holds a command record and two output records, and a status poll
\* was made.
C7_Witness ==
    /\ Len(log.content) = 3
    /\ log.exists
    /\ statusSent = 1
    /\ Len(Gate) = 1

(***************************************************************************)
(* C8: a failed open of the log file does not interrupt the operation: an  *)
(* accepted command whose log write fails is still echoed, sent over rcon  *)
(* and updates lastCommand; a console response whose log writes fail still *)
(* has every output segment inserted into the output view.                 *)
(***************************************************************************)
ReceiveStep == Len(trace') = Len(trace) + 1 /\ trace'[Len(trace')].op = "onReceiveRcon"

\* The output view chunks of every line of a payload, in order.
HtmlOf(payload) ==
    [i \in 1..Len(payload) |-> toHtml(OutputParser_parse(payload)[i])]

C8_LogFailureAbsorbed ==
    [][/\ ( /\ AttemptStep
            /\ msecsTo(lastCommand, clock') >= MinInterval
            /\ OpenFailures(log') > OpenFailures(log) )
          => ( /\ lastCommand' = clock'
               /\ rconSent' = Append(rconSent, << "rcon", password, AttemptCommand >>)
               /\ Len(commandOutput') = Len(commandOutput) + 1 )
       /\ ( /\ ReceiveStep
            /\ OpenFailures(log') > OpenFailures(log) )
          => commandOutput' = commandOutput \o HtmlOf(trace'[Len(trace')].payload)]_vars

\* The log could not be opened for an accepted command, nor for the first
\* line of its two-line response: the command was sent, both lines shown.
C8_Witness ==
    /\ Len(trace) = 2
    /\ trace[1].op = "sendCommand" /\ trace[1].accepted /\ ~trace[1].opened
    /\ trace[2].op = "onReceiveRcon" /\ trace[2].opened = << FALSE, TRUE >>
    /\ Len(rconSent) = 1
    /\ lastCommand = trace[1].at
    /\ Len(commandOutput) = 3
    /\ Len(log.content) = 1

(***************************************************************************)
(* C9: the status poll is independent of the rcon path: while the session  *)
(* is open the status timer's slot can run whether or not an rcon response *)
(* is outstanding or the gate is rejecting, each run sends exactly one     *)
(* getstatus request, and none changes lastCommand or sends over rcon.     *)
(***************************************************************************)
PollStep == Len(trace') = Len(trace) + 1 /\ trace'[Len(trace')].op = "requestServerStatus"

C9_StatusPollIndependent ==
    /\ []((alive /\ events < MaxEvents /\ statusSent < MaxPolls)
            => ENABLED requestServerStatus)
    /\ [][/\ PollStep => ( /\ statusSent' = statusSent + 1
                           /\ UNCHANGED << lastCommand, rconSent, rconPending >> )
          /\ statusSent' # statusSent => PollStep]_vars

\* A getstatus request went out between an accepted command and an attempt
\* rejected half a second later: the gate was rejecting and the rcon response
\* was outstanding.
C9_Witness ==
    /\ Len(trace) = 3
    /\ trace[1].op = "sendCommand" /\ trace[1].accepted
    /\ trace[2].op = "requestServerStatus"
    /\ trace[3].op = "sendCommand" /\ ~trace[3].accepted
    /\ trace[3].at = trace[1].at + 500
    /\ rconPending = 1
    /\ statusSent = 1

StatusStep == Len(trace') = Len(trace) + 1 /\ trace'[Len(trace')].op = "onReceiveStatus"

\* A status payload that is empty or lacks the header token.
InvalidStatusPayload(payload) ==
    payload = << >> \/ Head(payload) # << "statusResponse" >>

\* C11: when an invalid status payload (empty, or without the header token) is
\* delivered to the status handler, the window title, the status bar text and
\* the player list are left as they were.
C11_InvalidStatusLeavesViewUnchanged ==
    [][(StatusStep /\ InvalidStatusPayload(trace'[Len(trace')].payload))
         => UNCHANGED statusView]_vars

Accepted == SelectSeq(Gate, LAMBDA e : e.accepted)

\* The statusTimer firings so far.
Polls == SelectSeq(trace, LAMBDA e : e.op = "requestServerStatus")

\* A response datagram is lost in this step.
LossStep ==
    /\ received' = received
    /\ rconPending' + statusPending' = rconPending + statusPending - 1

\* C13: a lost datagram is absorbed without a retry: as many rcon datagrams are
\* sent as commands are accepted, as many getstatus datagrams as the timer
\* fired, a loss sends, shows and logs nothing, and an attempt made at least
\* 1000 ms after the last accepted command is accepted and sent whether or not
\* the response to that command has arrived.
C13_LossAbsorbedNoRetry ==
    /\ [](Len(rconSent) = Len(Accepted) /\ statusSent = Len(Polls))
    /\ [][/\ LossStep =>
               UNCHANGED << rconSent, statusSent, lastCommand, log,
                            commandOutput, statusView, trace >>
          /\ (AttemptStep /\ clock' - lastCommand >= MinInterval) =>
               (/\ trace'[Len(trace')].accepted
                /\ rconSent' = Append(rconSent, Rcon_send(AttemptCommand))
                /\ rconPending' = rconPending + 1)]_vars

\* Two commands 1000 ms apart are both accepted and sent; the response to one
\* of them was lost, the other is still awaited, none was handled.
C13_Witness ==
    /\ Len(Gate) = 2
    /\ Gate[1].accepted /\ Gate[2].accepted
    /\ Gate[2].at = Gate[1].at + MinInterval
    /\ Len(rconSent) = 2
    /\ received = 0
    /\ events = 3
    /\ rconPending = 1

(***************************************************************************)
(* C14                                                                     *)
(***************************************************************************)
\* A log record that is the line of an outgoing command: sendCommand ends it
\* with a blank line.
IsCommandRecord(record) == record # << >> /\ record[Len(record)] = "\n\n"

\* The outgoing-command records among the first n records of the log.
CommandRecords(n) == { i \in 1..n : IsCommandRecord(log.content[i]) }

\* The accepted commands whose log file could be opened.
Logged == SelectSeq(Accepted, LAMBDA e : e.opened)

\* An accepted command leaves its record in the log in the step that sends its
\* datagram, and a response is appended behind what the log already holds.
RecordBeforeSend ==
    [][/\ (AttemptStep /\ trace'[Len(trace')].accepted) =>
            (/\ rconSent' = Append(rconSent, Rcon_send(AttemptCommand))
             /\ (preferences # "0" /\ trace'[Len(trace')].opened) =>
                  (/\ log'.content = Append(log.content, log'.content[Len(log'.content)])
                   /\ IsCommandRecord(log'.content[Len(log'.content)])))
       /\ ReceiveStep =>
            (/\ rconPending > 0
             /\ IsPrefix(log.content, log'.content)
             /\ \A i \in (Len(log.content) + 1)..Len(log'.content) :
                    ~IsCommandRecord(log'.content[i]))]_vars

\* C14 as stated: every accepted command produces exactly one outgoing-command
\* log record when logging is enabled, and exactly one rcon send; the record is
\* written before the datagram is sent, so it precedes the output records of
\* the response.
C14_OneRecordPerAcceptedCommand ==
    /\ [](/\ Len(rconSent) = Len(Accepted)
          /\ preferences # "0" =>
               Cardinality(CommandRecords(Len(log.content))) = Len(Accepted))
    /\ RecordBeforeSend

\* C14 amended: every accepted command produces exactly one rcon send, and
\* exactly one outgoing-command log record when logging is enabled and the log
\* file could be opened (none otherwise); the record is written before the
\* datagram is sent, so when no command record was skipped every output record
\* in the log has a command record before it.
C14_OneRecordPerLoggedCommand ==
    /\ [](/\ Len(rconSent) = Len(Accepted)
          /\ preferences # "0" =>
               Cardinality(CommandRecords(Len(log.content))) = Len(Logged)
          /\ preferences = "0" => CommandRecords(Len(log.content)) = {}
          /\ Len(Logged) = Len(Accepted) =>
               \A j \in 1..Len(log.content) :
                   ~IsCommandRecord(log.content[j]) => CommandRecords(j - 1) # {})
    /\ RecordBeforeSend

\* A command is logged and sent, its two-line response is logged behind it,
\* and a second command 1000 ms later is logged behind the response.
C14_Witness ==
    /\ Len(trace) = 3
    /\ trace[1].op = "sendCommand" /\ trace[1].accepted /\ trace[1].opened
    /\ trace[2].op = "onReceiveRcon" /\ trace[2].opened = << TRUE, TRUE >>
    /\ trace[3].op = "sendCommand" /\ trace[3].accepted /\ trace[3].opened
    /\ Len(rconSent) = 2
    /\ Len(log.content) = 4
    /\ CommandRecords(4) = {1, 4}

(***************************************************************************)
(* C15                                                                     *)
(***************************************************************************)
\* The text of the first n Output segments of a parsed response, in order.
RECURSIVE SegmentTexts(_, _)
SegmentTexts(segments, n) ==
    IF n = 0 THEN << >>
    ELSE Append(SegmentTexts(segments, n - 1), getText(segments[n]))

\* The same, without the segments whose QFile::open failed.
RECURSIVE SegmentTextsWritten(_, _, _)
SegmentTextsWritten(segments, opened, n) ==
    IF n = 0 THEN << >>
    ELSE SegmentTextsWritten(segments, opened, n - 1)
         \o (IF opened[n] THEN << getText(segments[n]) >> ELSE << >>)

\* The HTML of the first n Output segments of a parsed response, in order.
RECURSIVE SegmentHtml(_, _)
SegmentHtml(segments, n) ==
    IF n = 0 THEN << >>
    ELSE Append(SegmentHtml(segments, n - 1), toHtml(segments[n]))

\* C15 as stated: for every console response delivered to onReceiveRcon, each
\* Output segment the parser produced is appended to the log and handed to the
\* UI, exactly once each, in the parser's order.
C15_EverySegmentLoggedAndShown ==
    [][ReceiveStep =>
         LET segments == OutputParser_parse(trace'[Len(trace')].payload) IN
         /\ commandOutput' = commandOutput \o SegmentHtml(segments, Len(segments))
         /\ log'.content = log.content \o SegmentTexts(segments, Len(segments))]_vars

\* C15 amended: for every console response delivered to onReceiveRcon, each
\* Output segment the parser produced is handed to the UI exactly once, in the
\* parser's order; it is appended to the log exactly once, in the same order,
\* when logging is enabled and the log file could be opened for it, and is not
\* logged otherwise.
C15_EverySegmentShownAndLoggedIfOpen ==
    [][ReceiveStep =>
         LET segments == OutputParser_parse(trace'[Len(trace')].payload)
             opened == trace'[Len(trace')].opened
         IN
         /\ commandOutput' = commandOutput \o SegmentHtml(segments, Len(segments))
         /\ log'.content =
               log.content \o (IF preferences = "0" THEN << >>
                               ELSE SegmentTextsWritten(segments, opened, Len(segments)))]_vars

\* A two-line response was handled with the log writable: both segments are
\* the last two records of the log and the last two chunks of the view, in
\* the order of the payload.
C15_Witness ==
    /\ trace # << >>
    /\ trace[Len(trace)].op = "onReceiveRcon"
    /\ trace[Len(trace)].payload = << << "map: q3dm6" >>, << "^1", "Test" >> >>
    /\ trace[Len(trace)].opened = << TRUE, TRUE >>
    /\ Len(log.content) >= 2
    /\ SubSeq(log.content, Len(log.content) - 1, Len(log.content))
         = << << "map: q3dm6" >>, << "Test" >> >>
    /\ Len(commandOutput) >= 2
    /\ SubSeq(commandOutput, Len(commandOutput) - 1, Len(commandOutput))
         = << << << "span", "none", "map: q3dm6" >> >>,
              << << "span", "^1", "Test" >> >> >>

(***************************************************************************)
(* C16                                                                     *)
(***************************************************************************)
\* The lines of the accepted outgoing commands so far.
CommandLines ==
    { << Accepted[i].ts, " > ", Accepted[i].command, "\n\n" >> : i \in 1..Len(Accepted) }

\* The console output lines received so far.
ConsoleLines ==
    UNION { { getText(OutputParser_parse(trace[n].payload)[i]) :
                i \in 1..Len(trace[n].payload) } :
            n \in { m \in 1..Len(trace) : trace[m].op = "onReceiveRcon" } }

\* C16: only the command path writes the log: every log record is the line of
\* an accepted outgoing command or a received console output line, and
\* sending a getstatus request or handling a status response leaves the log
\* file as it was.
C16_OnlyCommandPathWritesLog ==
    /\ [](\A j \in 1..Len(log.content) :
             log.content[j] \in CommandLines \cup ConsoleLines)
    /\ [][(PollStep \/ StatusStep) => UNCHANGED log]_vars

\* A command was logged, then a getstatus was sent and its response handled:
\* the status view is filled and the log still holds the command's record only.
C16_Witness ==
    /\ Len(trace) = 3
    /\ trace[1].op = "sendCommand" /\ trace[1].accepted /\ trace[1].opened
    /\ trace[2].op = "requestServerStatus"
    /\ trace[3].op = "onReceiveStatus"
    /\ statusView.players = << "Player1" >>
    /\ log.content = << << trace[1].ts, " > ", trace[1].command, "\n\n" >> >>
    /\ log.opens = 1

(***************************************************************************)
(* C17                                                                     *)
(***************************************************************************)
\* C17: no log handle persists across calls: every append opens the log file,
\* writes and releases the handle before it returns, so between two events the
\* client holds no handle on the log file.
C17_NoLogHandleHeld == log.handles = 0

\* The log file was opened three times, twice with success and once without,
\* and no handle is left.
C17_Witness ==
    /\ log.opens = 3
    /\ Len(log.content) = 2
    /\ OpenFailures(log) = 1
    /\ log.exists
    /\ log.handles = 0

(***************************************************************************)
(* C18                                                                     *)
(***************************************************************************)
\* C18: framing round-trips: for every payload byte sequence,
\* unframe(frame(payload)) equals payload, where frame prepends the 4-byte
\* 0xFFFFFFFF marker and unframe removes it.
C18_FramingRoundTrip ==
    /\ framing.stage \in {"framed", "unframed"} =>
         (/\ Len(framing.datagram) = Len(framing.payload) + 4
          /\ SubSeq(framing.datagram, 1, 4) = << 255, 255, 255, 255 >>
          /\ SubSeq(framing.datagram, 5, Len(framing.datagram)) = framing.payload)
    /\ framing.stage = "unframed" => framing.result = framing.payload

\* A payload that itself begins with 0xFF bytes came back from unframe.
C18_Witness ==
    /\ framing.stage = "unframed"
    /\ framing.payload = << 255, 255, 65 >>
    /\ framing.datagram = << 255, 255, 255, 255, 255, 255, 65 >>
    /\ framing.result = << 255, 255, 65 >>

(***************************************************************************)
(* C19                                                                     *)
(***************************************************************************)
\* What the one gate does to an attempt: compared with lastCommand, the
\* command is sent and lastCommand set to the time of the attempt, or nothing
\* is sent and lastCommand stays.
SharedGate ==
    IF msecsTo(lastCommand, clock') >= MinInterval
    THEN /\ lastCommand' = clock'
         /\ Len(rconSent') = Len(rconSent) + 1
    ELSE UNCHANGED << lastCommand, rconSent >>

\* C19: the send button (and Enter in the command box), the Status and Server
\* info menu actions and the automatic "status" command fired 250 ms after
\* construction all pass through the same gate on lastCommand, so over all
\* sources together two sent commands are never less than 1000 ms apart: a
\* user command less than 1000 ms after the automatic one is dropped, and so is
\* the automatic one less than 1000 ms after a user command.
C19_AllSourcesShareGate ==
    /\ [](\A i, j \in 1..Len(Accepted) :
             i < j => Accepted[j].at - Accepted[i].at >= MinInterval)
    /\ [][/\ on_sendButton_clicked => SharedGate
          /\ on_actionStatus_triggered => SharedGate
          /\ on_actionServer_info_triggered => SharedGate
          /\ initialStatus => SharedGate]_vars

\* A user command is accepted 1 ms after construction, and the automatic
\* status command, fired 500 ms later, is dropped; a later Server info
\* command, 1000 ms after the user's, is sent.
C19_Witness ==
    /\ Len(Gate) = 3
    /\ Gate[1].at = 1 /\ Gate[1].accepted /\ Gate[1].command = "map_restart"
    /\ Gate[2].at = 501 /\ ~Gate[2].accepted
    /\ alive /\ ~singleShotPending
    /\ Gate[3].at = 1001 /\ Gate[3].accepted /\ Gate[3].command = "serverinfo"
    /\ rconSent = << Rcon_send("map_restart"), Rcon_send("serverinfo") >>

(***************************************************************************)
(* C20                                                                     *)
(***************************************************************************)
\* C20: when the wall clock was set back, so that an attempt reads a time
\* earlier than lastCommand, the attempt is rejected, and so is every attempt
\* until the clock reads at least lastCommand + 1000 ms; a rejected attempt
\* leaves lastCommand alone, and lastCommand never moves backwards.
C20_ClockSetBackRejects ==
    [][/\ (AttemptStep /\ clock' < lastCommand + MinInterval) =>
            (/\ ~trace'[Len(trace')].accepted
             /\ UNCHANGED << lastCommand, rconSent, rconPending >>)
       /\ (AttemptStep /\ ~trace'[Len(trace')].accepted) =>
            (clock' < lastCommand + MinInterval /\ lastCommand' = lastCommand)
       /\ lastCommand' >= lastCommand]_vars

\* A command is accepted at t; the clock is set back by a second and an
\* attempt at t - 1000 is rejected, and one 999 ms later, at t - 1, as well.
C20_Witness ==
    /\ Len(Gate) = 3
    /\ Gate[1].accepted
    /\ Gate[2].at = Gate[1].at - 1000 /\ ~Gate[2].accepted
    /\ Gate[3].at = Gate[1].at - 1 /\ ~Gate[3].accepted
    /\ clock < lastCommand
    /\ lastCommand = Gate[1].at
    /\ Len(rconSent) = 1
====
